---------------------------- MODULE Spec2Model ----------------------------
(***************************************************************************)
(* A model of the ShapeDetector pipeline of src/src/main.ts: Sobel edge    *)
(* detection, Moore-neighbour contour tracing, contour metrics, duplicate  *)
(* filtering, Ramer-Douglas-Peucker simplification, convex hull and the    *)
(* shape classifier.                                                       *)
(*                                                                         *)
(* Numbers.  The source computes in IEEE doubles.  The model is integer:   *)
(* coordinates are integers, the shoelace sum is kept as twice the area    *)
(* (area2), ratios are compared by cross-multiplication, and lengths that  *)
(* need a square root are kept in fixed point (see the Metrics section).   *)
(***************************************************************************)
EXTENDS Integers, Sequences, FiniteSets, TLC

VARIABLES
    pc,                \* position of the modelled call: which step runs next
    width, height,     \* ShapeDetector.width / ShapeDetector.height
    edgeGrid,          \* detectShapes: the grid returned by applySobelEdgeDetection
    grid,              \* findContours: its working copy of edgeGrid (cells 0, 128, 255)
    scanX, scanY,      \* findContours: the loop variables x and y
    startPoint,        \* traceContour: startPoint
    currentPoint,      \* traceContour: currentPoint
    searchStartIndex,  \* traceContour: searchStartIndex
    traceCount,        \* traceContour: traceCount
    contour,           \* traceContour: contour (the points accumulated so far)
    fresh,             \* history: for each point of contour, whether it was 255 when taken
    contours,          \* findContours: contours (the result being built)
    traced,            \* history: every value traceContour returned, in call order
    input,             \* the argument of the function that is called
    output,            \* what that call returned
    flows,             \* ShapeDetectionApp: the pending calls of processImage / loadTestImage
    canvas             \* the size of the canvas the detector draws on

traceVars == <<width, height, edgeGrid, grid, scanX, scanY, startPoint, currentPoint,
               searchStartIndex, traceCount, contour, fresh, contours, traced>>
callVars == <<input, output>>
appVars == <<flows, canvas>>
vars == <<pc, traceVars, callVars, appVars>>

-----------------------------------------------------------------------------
(* Bounds of the model *)

\* The edge grids explored are GridWidth x GridHeight.
GridWidth == 5
GridHeight == 4

\* traceContour's MAX_TRACE is 20000; the model runs the same loop with a
\* small cap so that walks on the small grids reach it.
MAX_TRACE == 4

\* findContours keeps a contour of more than 30 points; on the small grids
\* the model keeps a contour of more than MinContourLength points.
MinContourLength == 1

-----------------------------------------------------------------------------
(* Points and small helpers *)

Pt(px, py) == [x |-> px, y |-> py]

Min(a, b) == IF a < b THEN a ELSE b
Max(a, b) == IF a > b THEN a ELSE b
Abs(a) == IF a < 0 THEN -a ELSE a

SetMin(S) == CHOOSE m \in S : \A o \in S : m <= o

Last(s) == s[Len(s)]

-----------------------------------------------------------------------------
(* STEP 3: contour tracing (findContours, traceContour) *)

\* traceContour: neighbors, clockwise from East (E, SE, S, SW, W, NW, N, NE).
neighbors ==
    << Pt(1, 0), Pt(1, 1), Pt(0, 1), Pt(-1, 1),
       Pt(-1, 0), Pt(-1, -1), Pt(0, -1), Pt(1, -1) >>

\* The neighbour looked at in iteration i of the for loop.
neighborIndex(i) == (searchStartIndex + i) % Len(neighbors)
nextPoint(i) ==
    Pt(currentPoint.x + neighbors[neighborIndex(i) + 1].x,
       currentPoint.y + neighbors[neighborIndex(i) + 1].y)

\* "Check if we're off the grid"
offGrid(p) == p.x < 0 \/ p.x >= width \/ p.y < 0 \/ p.y >= height

\* A test that takes unvisited edge pixels only.
isEdgeOrVisiting_EdgeOnly(v) == v = 255

\* "Is this an edge pixel (255) or one we're visiting (128)?"
isEdgeOrVisiting(v) == v = 255 \/ v = 128

\* A for loop that takes the first neighbour on the grid, whatever its cell holds.
stopsAt_AnyCell(i) == ~offGrid(nextPoint(i))

\* The for loop leaves (by return or break) at the first neighbour that is on
\* the grid and is either the start point or an edge/visited cell.
stopsAt(i) ==
    /\ ~offGrid(nextPoint(i))
    /\ \/ nextPoint(i) = startPoint
       \/ isEdgeOrVisiting(grid[nextPoint(i).y][nextPoint(i).x])

\* The index i at which the for loop leaves, or Len(neighbors) when it runs to
\* its end without finding a next point.
RECURSIVE firstFound(_)
firstFound(i) ==
    IF i >= Len(neighbors) THEN Len(neighbors)
    ELSE IF stopsAt(i) THEN i
    ELSE firstFound(i + 1)

\* A walk that leaves the cells it takes unmarked.
markVisited_Forgotten(g, p) == g

\* A walk that wipes the cells it takes.
markVisited_Wiped(g, p) == [g EXCEPT ![p.y][p.x] = 0]

\* traceContour, line 226, "Mark as visited": the grid with cell p marked.
markVisited(g, p) == [g EXCEPT ![p.y][p.x] = 128]

\* A loop test that lets one iteration too many through.
loopTest_OffByOne(count) == count <= MAX_TRACE

\* while (traceCount++ < MAX_TRACE): the test on the value before the increment.
loopTest(count) == count < MAX_TRACE

\* if (traceCount >= MAX_TRACE) console.error(...), after the loop.
logsMaxTrace(count) == count >= MAX_TRACE

\* A length filter that also keeps a contour of exactly the minimum length.
keepsContour_Inclusive(c) == Len(c) >= MinContourLength

\* findContours: if (newContour.length > 30) contours.push(newContour)
keepsContour(c) == Len(c) > MinContourLength

\* findContours' two for loops, row-major from cell number i on: the number
\* of the first cell that holds 255, or width * height when there is none.
RECURSIVE nextEdgeCell(_)
nextEdgeCell(i) ==
    IF i >= width * height THEN width * height
    ELSE IF grid[i \div width][i % width] = 255 THEN i
    ELSE nextEdgeCell(i + 1)

scanCell == scanY * width + scanX

\* findContours, lines 170-175: the scan reaches the next cell holding 255,
\* marks it 128 and calls traceContour on it.
StartTrace ==
    /\ pc = "scan"
    /\ nextEdgeCell(scanCell) < width * height
    /\ LET sx == nextEdgeCell(scanCell) % width
           sy == nextEdgeCell(scanCell) \div width
       IN /\ scanX' = sx
          /\ scanY' = sy
          /\ grid' = [grid EXCEPT ![sy][sx] = 128]
          /\ startPoint' = Pt(sx, sy)
          /\ currentPoint' = Pt(sx, sy)
          /\ contour' = << Pt(sx, sy) >>
          /\ fresh' = << TRUE >>
    /\ searchStartIndex' = 4
    /\ traceCount' = 0
    /\ pc' = "trace"
    /\ UNCHANGED <<appVars, width, height, edgeGrid, contours, traced, callVars>>

\* findContours, lines 170-184: no cell holding 255 is left; return contours.
ScanDone ==
    /\ pc = "scan"
    /\ nextEdgeCell(scanCell) >= width * height
    /\ scanX' = 0
    /\ scanY' = height
    /\ pc' = "done"
    /\ UNCHANGED <<appVars, width, height, edgeGrid, grid, startPoint, currentPoint, searchStartIndex,
                   traceCount, contour, fresh, contours, traced, callVars>>

\* traceContour returns `points` to findContours, which filters it by length
\* and goes on scanning.
returnContour(points, flags, logged) ==
    /\ traced' = Append(traced, [points |-> points, fresh |-> flags, logged |-> logged,
                                 count |-> traceCount'])
    /\ contours' = IF keepsContour(points) THEN Append(contours, points) ELSE contours
    /\ pc' = "scan"

\* One iteration of the while loop that ends by "return contour" at the start point.
TraceClose ==
    /\ pc = "trace"
    /\ loopTest(traceCount)
    /\ firstFound(0) < Len(neighbors)
    /\ nextPoint(firstFound(0)) = startPoint
    /\ traceCount' = traceCount + 1
    /\ returnContour(contour, fresh, FALSE)
    /\ UNCHANGED <<appVars, width, height, edgeGrid, grid, scanX, scanY, startPoint, currentPoint,
                   searchStartIndex, contour, fresh, callVars>>

\* One iteration that pushes the next point and goes on.
TraceStep ==
    /\ pc = "trace"
    /\ loopTest(traceCount)
    /\ firstFound(0) < Len(neighbors)
    /\ LET i == firstFound(0)
           np == nextPoint(i)
       IN /\ np # startPoint
          /\ contour' = Append(contour, np)
          /\ fresh' = Append(fresh, grid[np.y][np.x] = 255)
          /\ grid' = IF grid[np.y][np.x] = 255 THEN markVisited(grid, np) ELSE grid
          /\ currentPoint' = np
          /\ searchStartIndex' = (neighborIndex(i) + 5) % 8
    /\ traceCount' = traceCount + 1
    /\ UNCHANGED <<appVars, pc, width, height, edgeGrid, scanX, scanY, startPoint, contours, traced,
                   callVars>>

\* One iteration that finds no next point: "Hit a dead end".
TraceDeadEnd ==
    /\ pc = "trace"
    /\ loopTest(traceCount)
    /\ firstFound(0) >= Len(neighbors)
    /\ traceCount' = traceCount + 1
    /\ returnContour(contour, fresh, FALSE)
    /\ UNCHANGED <<appVars, width, height, edgeGrid, grid, scanX, scanY, startPoint, currentPoint,
                   searchStartIndex, contour, fresh, callVars>>

\* The loop test fails: lines 240-243.
TraceCap ==
    /\ pc = "trace"
    /\ ~loopTest(traceCount)
    /\ traceCount' = traceCount + 1
    /\ returnContour(contour, fresh, logsMaxTrace(traceCount'))
    /\ UNCHANGED <<appVars, width, height, edgeGrid, grid, scanX, scanY, startPoint, currentPoint,
                   searchStartIndex, contour, fresh, callVars>>

\* An edge grid as applySobelEdgeDetection returns it: cells 0 or 255, the
\* outermost 1-pixel border 0.
EdgeGrid(w, h, lit) ==
    [cy \in 0..(h - 1) |-> [cx \in 0..(w - 1) |-> IF <<cx, cy>> \in lit THEN 255 ELSE 0]]
Interior(w, h) == (1..(w - 2)) \X (1..(h - 2))

NoPoint == Pt(-1, -1)

\* The application's variables in a specification of one call of the detector.
NoCanvas == [width |-> 0, height |-> 0]
IdleApp ==
    /\ flows = << >>
    /\ canvas = NoCanvas

\* detectShapes line 64: findContours is called on a copy of the edge grid.
InitTrace ==
    /\ pc = "scan"
    /\ width = GridWidth
    /\ height = GridHeight
    /\ \E lit \in SUBSET Interior(GridWidth, GridHeight) :
          /\ edgeGrid = EdgeGrid(GridWidth, GridHeight, lit)
          /\ grid = EdgeGrid(GridWidth, GridHeight, lit)
    /\ scanX = 0
    /\ scanY = 0
    /\ startPoint = NoPoint
    /\ currentPoint = NoPoint
    /\ searchStartIndex = 4
    /\ traceCount = 0
    /\ contour = << >>
    /\ fresh = << >>
    /\ contours = << >>
    /\ traced = << >>
    /\ input = << >>
    /\ output = << >>
    /\ IdleApp

\* The tracer's variables in a specification in which no walk runs.
IdleWalk ==
    /\ grid = << >>
    /\ scanX = 0
    /\ scanY = 0
    /\ startPoint = NoPoint
    /\ currentPoint = NoPoint
    /\ searchStartIndex = 4
    /\ traceCount = 0
    /\ contour = << >>
    /\ fresh = << >>
    /\ contours = << >>
    /\ traced = << >>

\* The tracer's variables in a specification that exercises a helper function.
IdleTrace ==
    /\ width = 0
    /\ height = 0
    /\ edgeGrid = << >>
    /\ grid = << >>
    /\ scanX = 0
    /\ scanY = 0
    /\ startPoint = NoPoint
    /\ currentPoint = NoPoint
    /\ searchStartIndex = 4
    /\ traceCount = 0
    /\ contour = << >>
    /\ fresh = << >>
    /\ contours = << >>
    /\ traced = << >>

NextTrace ==
    \/ StartTrace
    \/ ScanDone
    \/ TraceClose
    \/ TraceStep
    \/ TraceDeadEnd
    \/ TraceCap

Spec == InitTrace /\ [][NextTrace]_vars

-----------------------------------------------------------------------------
(* Fixed-point numbers                                                     *)
(*                                                                         *)
(* A length is kept in thousandths (Math.sqrt rounded down to 0.001), a    *)
(* squared distance as an exact fraction [num, den], a ratio as an exact   *)
(* fraction compared by cross-multiplication.                              *)

\* The largest r in lo..hi with r * r <= n.
RECURSIVE isqrtIn(_, _, _)
isqrtIn(n, lo, hi) ==
    IF lo >= hi THEN lo
    ELSE LET mid == (lo + hi + 1) \div 2
         IN IF mid * mid <= n THEN isqrtIn(n, mid, hi) ELSE isqrtIn(n, lo, mid - 1)

\* Math.sqrt(n) for an integer n >= 0, in thousandths, rounded down.
sqrtMilli(n) == isqrtIn(n * 1000000, 0, 46340)

Frac(n, d) == [num |-> n, den |-> d]

\* a > b for fractions with positive denominators.
fracGreater(a, b) == a.num * b.den > b.num * a.den

-----------------------------------------------------------------------------
(* METRIC & GEOMETRY HELPERS: calculateMetrics *)

\* A polygon left open: the last point is paired with itself.
wrapIndex_NoClosingEdge(i, n) == IF i + 1 < n THEN i + 1 ELSE i

\* "Wrap around": the index (0-based) of p2 for p1 = contour[i].
wrapIndex(i, n) == (i + 1) % n

\* The 0-based element i of a sequence.
at(seq, i) == seq[i + 1]

\* The sums of the for loop are taken over a range lo..hi of its steps as the
\* sum over its two halves: the nesting of the evaluation then grows with the
\* logarithm of the contour's length, not with the length.

\* "Use the Shoelace formula to find the area": step i adds this.
shoelaceTerm(c, i) ==
    LET p1 == at(c, i)
        p2 == at(c, wrapIndex(i, Len(c)))
    IN p1.x * p2.y - p2.x * p1.y

RECURSIVE shoelaceOver(_, _, _)
shoelaceOver(c, lo, hi) ==
    IF lo > hi THEN 0
    ELSE IF lo = hi THEN shoelaceTerm(c, lo)
    ELSE LET mid == (lo + hi) \div 2
         IN shoelaceOver(c, lo, mid) + shoelaceOver(c, mid + 1, hi)

\* "Add up the distance between each point for the perimeter": step i adds
\* this, in thousandths.
perimeterTerm(c, i) ==
    LET p1 == at(c, i)
        p2 == at(c, wrapIndex(i, Len(c)))
    IN sqrtMilli((p2.x - p1.x) * (p2.x - p1.x) + (p2.y - p1.y) * (p2.y - p1.y))

RECURSIVE perimeterOver(_, _, _)
perimeterOver(c, lo, hi) ==
    IF lo > hi THEN 0
    ELSE IF lo = hi THEN perimeterTerm(c, lo)
    ELSE LET mid == (lo + hi) \div 2
         IN perimeterOver(c, lo, mid) + perimeterOver(c, mid + 1, hi)

\* sumX += p1.x and sumY += p1.y
RECURSIVE sumXOver(_, _, _)
sumXOver(c, lo, hi) ==
    IF lo > hi THEN 0
    ELSE IF lo = hi THEN at(c, lo).x
    ELSE LET mid == (lo + hi) \div 2
         IN sumXOver(c, lo, mid) + sumXOver(c, mid + 1, hi)

RECURSIVE sumYOver(_, _, _)
sumYOver(c, lo, hi) ==
    IF lo > hi THEN 0
    ELSE IF lo = hi THEN at(c, lo).y
    ELSE LET mid == (lo + hi) \div 2
         IN sumYOver(c, lo, mid) + sumYOver(c, mid + 1, hi)

xsOf(c) == {c[i].x : i \in 1..Len(c)}
ysOf(c) == {c[i].y : i \in 1..Len(c)}
SetMax(S) == CHOOSE m \in S : \A o \in S : m >= o

\* calculateMetrics.  area2 is twice the area (Math.abs of the shoelace sum,
\* before the division by 2.0); perimeter is in thousandths; the center is
\* the fraction (sumX / count, sumY / count).
calculateMetrics(c) ==
    IF Len(c) = 0
    THEN [area2 |-> 0, perimeter |-> 0,
          boundingBox |-> [x |-> 0, y |-> 0, width |-> 0, height |-> 0],
          center |-> [sumX |-> 0, sumY |-> 0, count |-> 1]]
    ELSE [area2 |-> Abs(shoelaceOver(c, 0, Len(c) - 1)),
          perimeter |-> perimeterOver(c, 0, Len(c) - 1),
          boundingBox |-> [x |-> SetMin(xsOf(c)), y |-> SetMin(ysOf(c)),
                           width |-> SetMax(xsOf(c)) - SetMin(xsOf(c)),
                           height |-> SetMax(ysOf(c)) - SetMin(ysOf(c))],
          center |-> [sumX |-> sumXOver(c, 0, Len(c) - 1),
                      sumY |-> sumYOver(c, 0, Len(c) - 1), count |-> Len(c)]]

-----------------------------------------------------------------------------
(* simplifyContour (Ramer-Douglas-Peucker) and perpendicularDistance *)

sq(a) == a * a

\* perpendicularDistance, squared, as an exact fraction: the source returns
\* the square root of this number.
perpendicularDistanceSq(point, lineStart, lineEnd) ==
    LET dx == lineEnd.x - lineStart.x
        dy == lineEnd.y - lineStart.y
        lenSq == dx * dx + dy * dy
        \* t = tNum / lenSq
        tNum == (point.x - lineStart.x) * dx + (point.y - lineStart.y) * dy
    IN IF dx = 0 /\ dy = 0
       THEN Frac(sq(point.x - lineStart.x) + sq(point.y - lineStart.y), 1)
       ELSE IF tNum < 0
       THEN Frac(sq(point.x - lineStart.x) + sq(point.y - lineStart.y), 1)
       ELSE IF tNum > lenSq
       THEN Frac(sq(point.x - lineEnd.x) + sq(point.y - lineEnd.y), 1)
       ELSE \* closest = lineStart + t * (dx, dy)
            Frac((sq(point.x - lineStart.x) + sq(point.y - lineStart.y)) * lenSq
                     - tNum * tNum, lenSq)

\* The for loop of simplifyContour over the steps lo..hi, started with dmax = 0
\* and index = 0: [dmax, index] once it has run, dmax being kept squared.  A
\* range of several steps is taken as two halves; the second half replaces
\* what the first half found only by a strictly greater distance, as d > dmax does.
RECURSIVE farthestOver(_, _, _)
farthestOver(points, lo, hi) ==
    IF lo > hi THEN [dmaxSq |-> Frac(0, 1), index |-> 0]
    ELSE IF lo = hi
    THEN LET d == perpendicularDistanceSq(at(points, lo), at(points, 0),
                                          at(points, Len(points) - 1))
         IN IF fracGreater(d, Frac(0, 1)) THEN [dmaxSq |-> d, index |-> lo]
            ELSE [dmaxSq |-> Frac(0, 1), index |-> 0]
    ELSE LET mid == (lo + hi) \div 2
             first == farthestOver(points, lo, mid)
             second == farthestOver(points, mid + 1, hi)
         IN IF fracGreater(second.dmaxSq, first.dmaxSq) THEN second ELSE first

\* dmax > epsilon, for epsilon given in hundredths.
exceedsEpsilon(dmaxSq, epsilon) == dmaxSq.num * 10000 > epsilon * epsilon * dmaxSq.den

\* points.slice(from, to) with 0-based from (inclusive) and to (exclusive).
slice(points, from, to) == SubSeq(points, from + 1, to)

\* A second half that starts after the corner instead of at it.
secondHalf_SkipsCorner(points, index) == slice(points, index + 1, Len(points))

\* points.slice(0, index + 1) and points.slice(index): both halves hold the corner.
firstHalf(points, index) == slice(points, 0, index + 1)
secondHalf(points, index) == slice(points, index, Len(points))

\* "Put the results back together"
joinHalves(recResults1, recResults2) ==
    slice(recResults1, 0, Len(recResults1) - 1) \o recResults2

\* simplifyContour(points, epsilon), epsilon in hundredths.
RECURSIVE simplifyContour(_, _)
simplifyContour(points, epsilon) ==
    IF Len(points) < 3 THEN points
    ELSE LET far == farthestOver(points, 1, Len(points) - 2)
             end == Len(points) - 1
         IN IF exceedsEpsilon(far.dmaxSq, epsilon)
            THEN joinHalves(simplifyContour(firstHalf(points, far.index), epsilon),
                            simplifyContour(secondHalf(points, far.index), epsilon))
            ELSE << at(points, 0), at(points, end) >>

-----------------------------------------------------------------------------
(* calculateConvexHull (monotone chain) and crossProduct *)

crossProduct(o, a, b) == (a.x - o.x) * (b.y - o.y) - (a.y - o.y) * (b.x - o.x)

\* The sort comparator: a.x !== b.x ? a.x - b.x : a.y - b.y
compare(a, b) == IF a.x # b.x THEN a.x - b.x ELSE a.y - b.y

\* [...points].sort(comparator): the sort is stable, so the place of element
\* k is 1 + the number of elements that compare smaller or that compare equal
\* and stand before it.
sortPoints(points) ==
    LET n == Len(points)
        place == [k \in 1..n |->
                    1 + Cardinality({j \in 1..n :
                                        \/ compare(points[j], points[k]) < 0
                                        \/ compare(points[j], points[k]) = 0 /\ j < k})]
    IN [i \in 1..n |-> points[CHOOSE k \in 1..n : place[k] = i]]

\* A pop test that keeps collinear points on the chain.
popsLast_KeepsCollinear(chain, p) ==
    /\ Len(chain) >= 2
    /\ crossProduct(chain[Len(chain) - 1], chain[Len(chain)], p) < 0

\* The pop test of both chains.
popsLast(chain, p) ==
    /\ Len(chain) >= 2
    /\ crossProduct(chain[Len(chain) - 1], chain[Len(chain)], p) <= 0

\* The while loop: pop while the last two points and p do not turn left.
RECURSIVE popWhile(_, _)
popWhile(chain, p) ==
    IF popsLast(chain, p) THEN popWhile(SubSeq(chain, 1, Len(chain) - 1), p) ELSE chain

\* The for loop of one chain over the points lo..hi of `ordered`, entered with
\* `chain`: pop while the last two points and p do not turn left, push p.
RECURSIVE takePoints(_, _, _, _)
takePoints(chain, ordered, lo, hi) ==
    IF hi < lo THEN chain
    ELSE Append(popWhile(takePoints(chain, ordered, lo, hi - 1), ordered[hi]), ordered[hi])

\* One chain: what the for loop has built once it has taken the first i of
\* the points in the order given.  The points are taken eight at a time, and
\* the chain built so far is read (it never holds more points than were
\* taken) before the next eight are: this keeps the nesting of the evaluation
\* well below the number of points.
RECURSIVE buildChain(_, _)
buildChain(ordered, i) ==
    IF i <= 0 THEN << >>
    ELSE LET lo == ((i - 1) \div 8) * 8 + 1
             soFar == buildChain(ordered, lo - 1)
         IN IF Len(soFar) >= lo THEN soFar
            ELSE takePoints(soFar, ordered, lo, i)

Reverse(seq) == [i \in 1..Len(seq) |-> seq[Len(seq) + 1 - i]]

dropLast(seq) == SubSeq(seq, 1, Len(seq) - 1)

\* if (points.length <= 3) return [...points]
TrivialHullLength == 3

calculateConvexHull(points) ==
    IF Len(points) <= TrivialHullLength THEN points
    ELSE LET sortedPoints == sortPoints(points)
             lower == buildChain(sortedPoints, Len(sortedPoints))
             upper == buildChain(Reverse(sortedPoints), Len(sortedPoints))
         IN dropLast(lower) \o dropLast(upper)

-----------------------------------------------------------------------------
(* Claims about contour tracing *)

\* Every contour traced so far in this pass, the one being walked included,
\* each with the flags saying which of its points were 255 when taken.
allTraced ==
    IF pc = "trace"
    THEN Append(traced, [points |-> contour, fresh |-> fresh, logged |-> FALSE,
                         count |-> traceCount])
    ELSE traced

\* The places <<k, j>>: point j of traced contour k.
places == {pl \in (1..Len(allTraced)) \X (1..(MAX_TRACE + 2)) :
              pl[2] <= Len(allTraced[pl[1]].points)}
pointAt(pl) == allTraced[pl[1]].points[pl[2]]
freshAt(pl) == allTraced[pl[1]].fresh[pl[2]]

C8_TraceBounded ==
    /\ pc = "trace" =>
          /\ traceCount <= MAX_TRACE
          /\ Len(contour) <= traceCount + 1
          /\ ENABLED (TraceClose \/ TraceStep \/ TraceDeadEnd \/ TraceCap)
    /\ (pc # "trace" /\ traced # << >>) => Last(traced).points = contour
    /\ \A k \in 1..Len(traced) :
          /\ Len(traced[k].points) <= MAX_TRACE + 1
          /\ traced[k].logged <=> (Len(traced[k].points) = MAX_TRACE + 1)
          /\ traced[k].logged <=> (traced[k].count > MAX_TRACE)

\* A walk was stopped by the cap and returned its MAX_TRACE + 1 points, and
\* another walk of the same pass ended before the cap.
C8_Witness ==
    /\ pc = "scan"
    /\ traced # << >>
    /\ Last(traced).logged
    /\ Len(Last(traced).points) = MAX_TRACE + 1
    /\ \E k \in 1..Len(traced) : ~traced[k].logged

-----------------------------------------------------------------------------
(* calculateMetrics on moved and scaled contours *)

\* The contours given to calculateMetrics: every sequence of at most
\* MaxMetricsLen points with coordinates in 0..MaxMetricsCoord, moved by
\* offsets in -MaxOffset..MaxOffset and scaled by factors in
\* -MaxFactor..MaxFactor.
MaxMetricsCoord == 1
MaxMetricsLen == 3
MaxOffset == 1
MaxFactor == 2

MetricsPoints == {Pt(px, py) : px \in 0..MaxMetricsCoord, py \in 0..MaxMetricsCoord}
MetricsContours(maxLen) == UNION {[1..n -> MetricsPoints] : n \in 0..maxLen}

translated(c, dx, dy) == [i \in 1..Len(c) |-> Pt(c[i].x + dx, c[i].y + dy)]
scaled(c, k) == [i \in 1..Len(c) |-> Pt(k * c[i].x, k * c[i].y)]

InitMetrics ==
    /\ pc = "call"
    /\ input \in MetricsContours(MaxMetricsLen)
    /\ output = << >>
    /\ IdleTrace
    /\ IdleApp

\* calculateMetrics(contour) and calculateMetrics of the contour moved by (dx, dy).
MetricsOfTranslated ==
    /\ pc = "call"
    /\ \E dx \in (-MaxOffset)..MaxOffset : \E dy \in (-MaxOffset)..MaxOffset :
          output' = [dx |-> dx, dy |-> dy,
                     base |-> calculateMetrics(input),
                     moved |-> calculateMetrics(translated(input, dx, dy))]
    /\ pc' = "translated"
    /\ UNCHANGED <<appVars, traceVars, input>>

\* calculateMetrics(contour) and calculateMetrics of the contour scaled by k.
MetricsOfScaled ==
    /\ pc = "call"
    /\ \E k \in (-MaxFactor)..MaxFactor :
          output' = [k |-> k,
                     base |-> calculateMetrics(input),
                     scaled |-> calculateMetrics(scaled(input, k))]
    /\ pc' = "scaled"
    /\ UNCHANGED <<appVars, traceVars, input>>

NextMetrics == MetricsOfTranslated \/ MetricsOfScaled

SpecMetrics == InitMetrics /\ [][NextMetrics]_vars

\* C7: the shoelace area of calculateMetrics is translation-invariant and
\* scale-quadratic: moving every point of a contour by an integer offset
\* (dx, dy) leaves the area unchanged, and multiplying every coordinate by an
\* integer factor k multiplies the area by k^2.  (area = area2 / 2.)
C7_AreaTranslationScale ==
    /\ pc = "translated" => output.moved.area2 = output.base.area2
    /\ pc = "scaled" => output.scaled.area2 = output.k * output.k * output.base.area2

\* A contour of non-zero area has been scaled by a negative factor other than -1.
C7_Witness ==
    /\ pc = "scaled"
    /\ output.k < -1
    /\ output.base.area2 > 0
    /\ output.scaled.area2 > output.base.area2

-----------------------------------------------------------------------------
(* calculateConvexHull on small point lists *)

\* The point lists given to calculateConvexHull have coordinates in
\* 0..MaxHullCoord and at most MaxHullLen points.
MaxHullCoord == 2
MaxHullLen == 5

\* Point number v of the lattice, numbered in the order of the sort comparator.
hullPoint(v) == Pt(v \div (MaxHullCoord + 1), v % (MaxHullCoord + 1))
HullPointCount == (MaxHullCoord + 1) * (MaxHullCoord + 1)

\* The non-decreasing sequences of n point numbers from lo on: one sequence
\* for each multiset of n lattice points.
RECURSIVE nonDecreasing(_, _)
nonDecreasing(n, lo) ==
    IF n = 0 THEN {<< >>}
    ELSE UNION {{<< v >> \o t : t \in nonDecreasing(n - 1, v)} : v \in lo..(HullPointCount - 1)}

\* A list of point numbers with its two halves interleaved: an order that is
\* neither ascending nor descending.
shuffled(s) ==
    LET half == (Len(s) + 1) \div 2
    IN [i \in 1..Len(s) |-> IF i % 2 = 1 THEN s[half + 1 - ((i + 1) \div 2)]
                                         ELSE s[half + (i \div 2)]]

\* Lists of at most TrivialHullLength points in every order; longer lists as
\* every multiset of points, each in ascending, descending and shuffled order
\* (calculateConvexHull sorts a longer list before anything else).
HullInputs(maxLen) ==
    LET short == UNION {[1..n -> 0..(HullPointCount - 1)] : n \in 0..TrivialHullLength}
        long == UNION {nonDecreasing(n, 0) : n \in (TrivialHullLength + 1)..maxLen}
        numbered == short \cup long \cup {Reverse(s) : s \in long}
                        \cup {shuffled(s) : s \in long}
    IN {[i \in 1..Len(s) |-> hullPoint(s[i])] : s \in numbered}

InitHull ==
    /\ pc = "call"
    /\ input \in HullInputs(MaxHullLen)
    /\ output = << >>
    /\ IdleTrace
    /\ IdleApp

CallConvexHull ==
    /\ pc = "call"
    /\ output' = calculateConvexHull(input)
    /\ pc' = "return"
    /\ UNCHANGED <<appVars, traceVars, input>>

NextHull == CallConvexHull

SpecHull == InitHull /\ [][NextHull]_vars

allCollinear(points) ==
    \A i \in 1..Len(points) : \A j \in 1..Len(points) : \A k \in 1..Len(points) :
        crossProduct(points[i], points[j], points[k]) = 0

\* Element i of a polygon, cyclically (1-based).
cyclic(h, i) == h[((i - 1) % Len(h)) + 1]

verticesAreInputPoints(h, points) ==
    \A i \in 1..Len(h) : \E j \in 1..Len(points) : h[i] = points[j]

strictTurns(h) ==
    \A i \in 1..Len(h) : crossProduct(cyclic(h, i), cyclic(h, i + 1), cyclic(h, i + 2)) > 0

enclosesAll(h, points) ==
    \A i \in 1..Len(h) : \A j \in 1..Len(points) :
        crossProduct(cyclic(h, i), cyclic(h, i + 1), points[j]) >= 0

\* C9 as stated: for every input of more than 3 points calculateConvexHull
\* returns a polygon whose vertices are input points, in which every three
\* cyclically consecutive vertices make a strict turn (cross product > 0) and
\* which has every input point inside or on it; an input of 3 or fewer points
\* is returned unchanged.
C9_HullOfEveryInput ==
    pc = "return" =>
        IF Len(input) > TrivialHullLength
        THEN /\ verticesAreInputPoints(output, input)
             /\ strictTurns(output)
             /\ enclosesAll(output, input)
        ELSE output = input

\* C9, amended: the strict turns hold for every input of more than 3 points
\* that are not all on one line; for more than 3 points that are all on one
\* line (or all equal) the result is the two-point list of the smallest and
\* the largest point in (x, y) order, which has no strict turn; its vertices
\* are input points and every input point is on it.  An input of 3 or fewer
\* points is returned unchanged.
C9_HullOfNonCollinear ==
    pc = "return" =>
        IF Len(input) > TrivialHullLength
        THEN /\ verticesAreInputPoints(output, input)
             /\ enclosesAll(output, input)
             /\ ~allCollinear(input) => strictTurns(output)
             /\ allCollinear(input) =>
                   output = << sortPoints(input)[1], Last(sortPoints(input)) >>
        ELSE output = input

\* The hull of more than 3 points, not all on one line, two of them equal and
\* three of them on one line, has dropped a point.
C9_Witness ==
    /\ pc = "return"
    /\ Len(input) > TrivialHullLength
    /\ ~allCollinear(input)
    /\ \E i \in 1..Len(input) : \E j \in 1..Len(input) : i # j /\ input[i] = input[j]
    /\ Len(output) < Cardinality({input[i] : i \in 1..Len(input)})

-----------------------------------------------------------------------------
(* simplifyContour applied to its own result *)

\* The point lists given to simplifyContour have coordinates in
\* 0..MaxSimplifyCoord and at most MaxSimplifyLen points; epsilon is one of
\* 0, 0.5, ..., MaxEpsilonHalves / 2.
MaxSimplifyCoord == 1
MaxSimplifyLen == 4
MaxEpsilonHalves == 2

SimplifyPoints == {Pt(px, py) : px \in 0..MaxSimplifyCoord, py \in 0..MaxSimplifyCoord}
SimplifyInputs(maxLen) ==
    {[points |-> c, epsilon |-> 50 * e] :
        c \in UNION {[1..n -> SimplifyPoints] : n \in 0..maxLen},
        e \in 0..MaxEpsilonHalves}

InitSimplify ==
    /\ pc = "call"
    /\ input \in SimplifyInputs(MaxSimplifyLen)
    /\ output = << >>
    /\ IdleTrace
    /\ IdleApp

\* simplifyContour(points, epsilon)
CallSimplify ==
    /\ pc = "call"
    /\ output' = << simplifyContour(input.points, input.epsilon) >>
    /\ pc' = "simplified"
    /\ UNCHANGED <<appVars, traceVars, input>>

\* simplifyContour(result, epsilon) on the result of the first call.
CallSimplifyAgain ==
    /\ pc = "simplified"
    /\ output' = Append(output, simplifyContour(output[1], input.epsilon))
    /\ pc' = "resimplified"
    /\ UNCHANGED <<appVars, traceVars, input>>

NextSimplify == CallSimplify \/ CallSimplifyAgain

SpecSimplify == InitSimplify /\ [][NextSimplify]_vars

\* C6: simplifyContour is idempotent: for every point list and every
\* epsilon >= 0, simplifying the result of simplifyContour again with the
\* same epsilon returns the same point list.
C6_SimplifyIdempotent ==
    pc = "resimplified" => output[2] = output[1]

\* The first call dropped a point and kept a corner between the two ends,
\* and the second call has run on its result.
C6_Witness ==
    /\ pc = "resimplified"
    /\ Len(output[1]) < Len(input.points)
    /\ Len(output[1]) > 2
    /\ input.epsilon > 0

-----------------------------------------------------------------------------
(* STEP 2: EDGE DETECTION (applySobelEdgeDetection) *)

kernelX == << << -1, 0, 1 >>, << -2, 0, 2 >>, << -1, 0, 1 >> >>
kernelY == << << -1, -2, -1 >>, << 0, 0, 0 >>, << 1, 2, 1 >> >>

\* The two inner for loops, from step n on (ky = n \div 3 - 1, kx = n % 3 - 1):
\* the sum of pixelVal * kernel[ky + 1][kx + 1].
RECURSIVE kernelSum(_, _, _, _, _)
kernelSum(g, x, y, kernel, n) ==
    IF n >= 9 THEN 0
    ELSE LET ky == (n \div 3) - 1
             kx == (n % 3) - 1
         IN g[y + ky][x + kx] * kernel[ky + 2][kx + 2] + kernelSum(g, x, y, kernel, n + 1)

\* Math.sqrt(n) for an integer n >= 0, exactly: its integer part and what is
\* left of n above the square of the integer part.
sqrtExact(n) ==
    LET whole == isqrtIn(n, 0, 46340)
    IN [whole |-> whole, rest |-> n - whole * whole]

\* "over 128"
EdgeThreshold == 128

\* A threshold test that takes a magnitude equal to the threshold as an edge.
isSharp_Inclusive(magnitude) == magnitude.whole >= EdgeThreshold

\* magnitude > 128
isSharp(magnitude) ==
    \/ magnitude.whole > EdgeThreshold
    \/ magnitude.whole = EdgeThreshold /\ magnitude.rest > 0

\* The cells the two outer for loops visit: "skipping the 1px border".
visited(x, y) == 1 <= y /\ y < height - 1 /\ 1 <= x /\ x < width - 1

applySobelEdgeDetection(g) ==
    [y \in 0..(height - 1) |->
        [x \in 0..(width - 1) |->
            IF visited(x, y)
            THEN LET gx == kernelSum(g, x, y, kernelX, 0)
                     gy == kernelSum(g, x, y, kernelY, 0)
                     magnitude == sqrtExact(gx * gx + gy * gy)
                 IN IF isSharp(magnitude) THEN 255 ELSE 0
            ELSE 0]]

\* The grayscale grids given to applySobelEdgeDetection are SobelWidth x
\* SobelHeight, black but for at most MaxBrightPixels pixels, each of a value
\* in BrightValues (createGrayscaleGrid rounds every pixel to an integer in
\* 0..255).
SobelWidth == 4
SobelHeight == 3
MaxBrightPixels == 2
BrightValues == {64, 65, 128, 255}

SobelCells == (0..(SobelWidth - 1)) \X (0..(SobelHeight - 1))
BrightSets(most) ==
    UNION {{{f[i] : i \in 1..n} : f \in [1..n -> SobelCells]} : n \in 0..most}
GrayGrid(b, v) ==
    [y \in 0..(SobelHeight - 1) |->
        [x \in 0..(SobelWidth - 1) |-> IF <<x, y>> \in b THEN v[<<x, y>>] ELSE 0]]

InitSobel ==
    /\ pc = "call"
    /\ width = SobelWidth
    /\ height = SobelHeight
    /\ \E b \in BrightSets(MaxBrightPixels) : \E v \in [b -> BrightValues] : input = GrayGrid(b, v)
    /\ edgeGrid = << >>
    /\ output = << >>
    /\ IdleWalk
    /\ IdleApp

\* detectShapes, line 61: edgeGrid = this.applySobelEdgeDetection(grayGrid)
CallSobel ==
    /\ pc = "call"
    /\ edgeGrid' = applySobelEdgeDetection(input)
    /\ pc' = "return"
    /\ UNCHANGED <<appVars, width, height, grid, scanX, scanY, startPoint, currentPoint,
                   searchStartIndex, traceCount, contour, fresh, contours, traced, callVars>>

NextSobel == CallSobel

SpecSobel == InitSobel /\ [][NextSobel]_vars

\* The horizontal and the vertical 3x3 Sobel sum of grid g at (x, y), written out.
sobelGx(g, x, y) ==
    (g[y - 1][x + 1] + 2 * g[y][x + 1] + g[y + 1][x + 1])
        - (g[y - 1][x - 1] + 2 * g[y][x - 1] + g[y + 1][x - 1])
sobelGy(g, x, y) ==
    (g[y + 1][x - 1] + 2 * g[y + 1][x] + g[y + 1][x + 1])
        - (g[y - 1][x - 1] + 2 * g[y - 1][x] + g[y - 1][x + 1])
sobelSquare(g, x, y) == sobelGx(g, x, y) * sobelGx(g, x, y) + sobelGy(g, x, y) * sobelGy(g, x, y)

onBorder(x, y) == x = 0 \/ y = 0 \/ x = width - 1 \/ y = height - 1

\* C10: applySobelEdgeDetection returns a grid of the input's dimensions
\* whose cells are all 0 or 255, whose outermost 1-pixel border is all 0, and
\* in which an interior cell is 255 exactly when gx^2 + gy^2 > 128^2 for the
\* two 3x3 Sobel sums at that pixel: a magnitude of exactly 128 is no edge.
C10_SobelThreshold ==
    pc = "return" =>
        /\ DOMAIN edgeGrid = DOMAIN input
        /\ \A y \in DOMAIN edgeGrid :
              /\ DOMAIN edgeGrid[y] = DOMAIN input[y]
              /\ \A x \in DOMAIN edgeGrid[y] :
                    /\ edgeGrid[y][x] \in {0, 255}
                    /\ onBorder(x, y) => edgeGrid[y][x] = 0
                    /\ ~onBorder(x, y) =>
                          (edgeGrid[y][x] = 255
                              <=> sobelSquare(input, x, y) > EdgeThreshold * EdgeThreshold)

\* One interior cell has a magnitude of exactly 128 and is no edge, another
\* interior cell is an edge.
C10_Witness ==
    /\ pc = "return"
    /\ \E y \in 1..(height - 2) : \E x \in 1..(width - 2) :
          /\ sobelSquare(input, x, y) = EdgeThreshold * EdgeThreshold
          /\ edgeGrid[y][x] = 0
    /\ \E y \in 1..(height - 2) : \E x \in 1..(width - 2) : edgeGrid[y][x] = 255

-----------------------------------------------------------------------------
(* STEP 4: classifyShape *)

\* metrics.perimeter in hundredths.
perimeterCenti(metrics) == metrics.perimeter \div 10

\* circularity = (4 * Math.PI * metrics.area) / (perimeter * perimeter), as a
\* fraction: 4 * pi * area = 2 * pi * area2, with pi taken as 3.1416 and the
\* perimeter in hundredths.  A perimeter of 0 gives the denominator 0: the
\* source's 0 / 0 = NaN.
circularity(metrics) ==
    Frac(62832 * metrics.area2, perimeterCenti(metrics) * perimeterCenti(metrics))

\* f > p / q for a fraction f; false for the NaN fraction, as every
\* comparison with NaN is.
exceeds(f, p, q) == f.den > 0 /\ f.num * q > p * f.den
below(f, p, q) == f.den > 0 /\ f.num * q < p * f.den

\* if (circularity > 0.80)
isCircle(circ) == exceeds(circ, 4, 5)

\* acc followed by the first `digits` decimals of r / den, for 0 <= r < den.
RECURSIVE decimalsOf(_, _, _, _)
decimalsOf(r, den, digits, acc) ==
    IF digits = 0 THEN acc
    ELSE decimalsOf((r * 10) % den, den, digits - 1, acc * 10 + ((r * 10) \div den))

\* A fraction in ten-thousandths, rounded down.
tenThousandths(f) == decimalsOf(f.num % f.den, f.den, 4, f.num \div f.den)

\* confidence: Math.min(circularity, 0.99), in ten-thousandths.
circleConfidence(circ) == Min(tenThousandths(circ), 9900)

\* "2. Calculate Solidity": metrics.area / hullMetrics.area, or 0 when the
\* hull has no area.
solidityOf(c, metrics) ==
    LET hull == calculateConvexHull(c)
        hullMetrics == calculateMetrics(hull)
    IN IF hullMetrics.area2 > 0 THEN Frac(metrics.area2, hullMetrics.area2) ELSE Frac(0, 1)

\* epsilon = 0.06 * metrics.perimeter, in hundredths.
epsilonOf(metrics) == (6 * perimeterCenti(metrics)) \div 100

\* A correction that also applies when the two vertices are exactly 10 apart.
numVerticesOf_Inclusive(vertices) ==
    IF Len(vertices) > 1
       /\ sq(vertices[1].x - Last(vertices).x) + sq(vertices[1].y - Last(vertices).y) <= 100
    THEN Len(vertices) - 1
    ELSE Len(vertices)

\* "4. Correct the vertex count": one less when the first and the last vertex
\* are less than 10 apart.
numVerticesOf(vertices) ==
    IF Len(vertices) > 1
       /\ sq(vertices[1].x - Last(vertices).x) + sq(vertices[1].y - Last(vertices).y) < 100
    THEN Len(vertices) - 1
    ELSE Len(vertices)

\* height || 1
orOne(a) == IF a = 0 THEN 1 ELSE a

\* An aspect test that looks at width / height alone.
tooSkinny_WidthOnly(boundingBox) ==
    boundingBox.width > 5 * orOne(boundingBox.height)

\* aspectRatio = Math.max(width / (height || 1), height / (width || 1)) > 5.0
tooSkinny(boundingBox) ==
    \/ boundingBox.width > 5 * orOne(boundingBox.height)
    \/ boundingBox.height > 5 * orOne(boundingBox.width)

\* return null
NoShape == [type |-> "none", confidence |-> 0]

\* A switch whose case 5 asks for the solidity the cases 3 and 4 ask for.
polygonType_OneThreshold(numVertices, solidity) ==
    IF numVertices = 3 /\ exceeds(solidity, 9, 10) THEN [type |-> "triangle", confidence |-> 9000]
    ELSE IF numVertices = 4 /\ exceeds(solidity, 9, 10)
    THEN [type |-> "rectangle", confidence |-> 9200]
    ELSE IF numVertices = 5 /\ exceeds(solidity, 9, 10)
    THEN [type |-> "pentagon", confidence |-> 8800]
    ELSE IF numVertices = 5 /\ exceeds(solidity, 3, 10) THEN [type |-> "star", confidence |-> 8200]
    ELSE IF numVertices = 10 /\ below(solidity, 4, 5) THEN [type |-> "star", confidence |-> 8200]
    ELSE NoShape

\* "6. Classify based on the final corner count": the switch and the final
\* if (type); confidences in ten-thousandths.
polygonType(numVertices, solidity) ==
    CASE numVertices = 3 ->
            IF exceeds(solidity, 9, 10) THEN [type |-> "triangle", confidence |-> 9000]
            ELSE NoShape
      [] numVertices = 4 ->
            IF exceeds(solidity, 9, 10) THEN [type |-> "rectangle", confidence |-> 9200]
            ELSE NoShape
      [] numVertices = 5 ->
            IF exceeds(solidity, 4, 5) THEN [type |-> "pentagon", confidence |-> 8800]
            ELSE IF exceeds(solidity, 3, 10) THEN [type |-> "star", confidence |-> 8200]
            ELSE NoShape
      [] numVertices = 10 ->
            IF below(solidity, 4, 5) THEN [type |-> "star", confidence |-> 8200]
            ELSE NoShape
      [] OTHER -> NoShape

\* A classifier that looks for a polygon first and for a circle last.
classifyShape_CircleLast(c, metrics) ==
    LET polygon == polygonType(numVerticesOf(simplifyContour(c, epsilonOf(metrics))),
                               solidityOf(c, metrics))
    IN IF ~tooSkinny(metrics.boundingBox) /\ polygon # NoShape THEN polygon
       ELSE IF isCircle(circularity(metrics))
       THEN [type |-> "circle", confidence |-> circleConfidence(circularity(metrics))]
       ELSE NoShape

\* classifyShape(contour, metrics): its type and confidence (the result's
\* other fields are the metrics, unchanged).
classifyShape(c, metrics) ==
    IF isCircle(circularity(metrics))
    THEN [type |-> "circle", confidence |-> circleConfidence(circularity(metrics))]
    ELSE LET solidity == solidityOf(c, metrics)
             vertices == simplifyContour(c, epsilonOf(metrics))
             numVertices == numVerticesOf(vertices)
         IN IF tooSkinny(metrics.boundingBox) THEN NoShape
            ELSE polygonType(numVertices, solidity)

-----------------------------------------------------------------------------
(* classifyShape on outlines of shapes *)

\* The contours given to classifyShape are the contours traceContour returns
\* for closed curves drawn one pixel wide: the outlines of polygons with sides
\* of at most MaxSide, straight strokes of at most MaxSide pixels, walked
\* there and back, and a five-pointed star.
MaxSide == 16

\* n / d rounded to the nearest integer, for d > 0.
rounded(n, d) == (2 * n + d) \div (2 * d)

\* The pixels of the side from a to b, b left out: one pixel for each step
\* along the longer axis.
side(a, b) ==
    LET steps == Max(Abs(b.x - a.x), Abs(b.y - a.y))
    IN [j \in 1..steps |-> Pt(a.x + rounded((j - 1) * (b.x - a.x), steps),
                              a.y + rounded((j - 1) * (b.y - a.y), steps))]

cyclicCorner(corners, i) == corners[((i - 1) % Len(corners)) + 1]

\* The outline of the polygon with the given corners, from corner i on.
RECURSIVE outlineFrom(_, _)
outlineFrom(corners, i) ==
    IF i > Len(corners) THEN << >>
    ELSE side(corners[i], cyclicCorner(corners, i + 1)) \o outlineFrom(corners, i + 1)
outline(corners) == outlineFrom(corners, 1)

rectangleCorners(w, h) == << Pt(0, 0), Pt(w, 0), Pt(w, h), Pt(0, h) >>
triangleCorners(a) == << Pt(0, 0), Pt(a, 0), Pt(0, a) >>
houseCorners(r, h) == << Pt(r, 0), Pt(2 * r, r), Pt(2 * r, r + h), Pt(0, r + h), Pt(0, r) >>
notchCorners(d, h) == << Pt(0, 0), Pt(d, d), Pt(2 * d, 0), Pt(2 * d, h), Pt(0, h) >>
zigzagCorners(a, h) ==
    << Pt(0, 0), Pt(a, a), Pt(2 * a, 0), Pt(3 * a, a), Pt(4 * a, 0),
       Pt(4 * a, h), Pt(3 * a, h - a), Pt(2 * a, h), Pt(a, h - a), Pt(0, h) >>
octagonCorners(a, b) ==
    << Pt(a, 0), Pt(a + b, 0), Pt(2 * a + b, a), Pt(2 * a + b, a + b),
       Pt(a + b, 2 * a + b), Pt(a, 2 * a + b), Pt(0, a + b), Pt(0, a) >>
stripCorners(l) == << Pt(0, 0), Pt(l, 0) >>
\* The star with tips at radius 10 and notches at radius 1.6 about (10, 10):
\* the walk goes up and down each thin tip over the same pixels.
starCorners ==
    << Pt(10, 0), Pt(10, 4), Pt(11, 5), Pt(11, 8), Pt(12, 9), Pt(13, 9), Pt(14, 8),
       Pt(17, 8), Pt(18, 7), Pt(20, 7), Pt(19, 7), Pt(18, 8), Pt(17, 8), Pt(16, 9),
       Pt(14, 9), Pt(13, 10), Pt(13, 12), Pt(14, 13), Pt(14, 14), Pt(15, 15),
       Pt(15, 16), Pt(16, 17), Pt(16, 18), Pt(10, 12), Pt(4, 18), Pt(5, 17),
       Pt(5, 16), Pt(6, 15), Pt(6, 14), Pt(7, 13), Pt(7, 12), Pt(8, 11), Pt(6, 9),
       Pt(4, 9), Pt(3, 8), Pt(2, 8), Pt(1, 7), Pt(0, 7), Pt(2, 7), Pt(3, 8),
       Pt(6, 8), Pt(7, 9), Pt(8, 9), Pt(9, 8), Pt(9, 5), Pt(10, 4) >>

transposed(corners) == [i \in 1..Len(corners) |-> Pt(corners[i].y, corners[i].x)]

ShapeCorners(maxSide) ==
    {rectangleCorners(w, h) : w \in 1..maxSide, h \in 1..maxSide}
    \cup {triangleCorners(a) : a \in 1..maxSide}
    \cup UNION {{houseCorners(r, h) : h \in 1..(maxSide - r)} : r \in 1..(maxSide \div 2)}
    \cup UNION {{notchCorners(d, h) : h \in (d + 1)..maxSide} : d \in 1..(maxSide \div 2)}
    \cup UNION {{zigzagCorners(a, h) : h \in (2 * a + 1)..maxSide} : a \in 1..(maxSide \div 4)}
    \cup UNION {{octagonCorners(a, b) : b \in 1..(maxSide - 2 * a)} : a \in 1..(maxSide \div 2)}
    \cup {stripCorners(l) : l \in 1..maxSide}
    \cup {transposed(stripCorners(l)) : l \in 1..maxSide}
    \cup {starCorners}

InitClassify ==
    /\ pc = "call"
    /\ \E corners \in ShapeCorners(MaxSide) : input = outline(corners)
    /\ output = << >>
    /\ IdleTrace
    /\ IdleApp

\* analyzeContours, line 289: shape = this.classifyShape(contour, metrics)
CallClassify ==
    /\ pc = "call"
    /\ output' = classifyShape(input, calculateMetrics(input))
    /\ pc' = "return"
    /\ UNCHANGED <<appVars, traceVars, input>>

NextClassify == CallClassify

SpecClassify == InitClassify /\ [][NextClassify]_vars

\* What the claims below read off a call: the metrics of the contour, its
\* circularity, its solidity and its corrected vertex count.
metricsOfInput == calculateMetrics(input)
circularityOfInput == circularity(metricsOfInput)
solidityOfInput == solidityOf(input, metricsOfInput)
verticesOfInput == numVerticesOf(simplifyContour(input, epsilonOf(metricsOfInput)))
boxOfInput == metricsOfInput.boundingBox

\* Comparisons of a fraction with p / q, written out for the claims.
atMost(f, p, q) == f.num * q <= p * f.den
moreThan(f, p, q) == f.num * q > p * f.den
lessThan(f, p, q) == f.num * q < p * f.den

\* The decision table of the specification on (n, s).
decisionTable(n, s) ==
    IF n = 3 /\ moreThan(s, 9, 10) THEN [type |-> "triangle", confidence |-> 9000]
    ELSE IF n = 4 /\ moreThan(s, 9, 10) THEN [type |-> "rectangle", confidence |-> 9200]
    ELSE IF n = 5 /\ moreThan(s, 4, 5) THEN [type |-> "pentagon", confidence |-> 8800]
    ELSE IF n = 5 /\ moreThan(s, 3, 10) /\ atMost(s, 4, 5)
    THEN [type |-> "star", confidence |-> 8200]
    ELSE IF n = 10 /\ lessThan(s, 4, 5) THEN [type |-> "star", confidence |-> 8200]
    ELSE [type |-> "none", confidence |-> 0]

\* C3: for every contour that is not a circle (circularity <= 0.80) and that
\* passes the aspect-ratio check, the result of classifyShape is the decision
\* table's entry for its corrected vertex count n and its solidity s:
\* triangle/0.90 for n = 3, s > 0.9; rectangle/0.92 for n = 4, s > 0.9;
\* pentagon/0.88 for n = 5, s > 0.8; star/0.82 for n = 5, 0.3 < s <= 0.8 and
\* for n = 10, s < 0.8; no shape for every other (n, s).
C3_DecisionTable ==
    (pc = "return" /\ ~isCircle(circularityOfInput) /\ ~tooSkinny(boxOfInput))
        => output = decisionTable(verticesOfInput, solidityOfInput)

\* C3's case: a five-cornered contour whose solidity is exactly 0.8 has been
\* classified, and is a star, not a pentagon.
C3_Witness ==
    /\ pc = "return"
    /\ ~isCircle(circularityOfInput) /\ ~tooSkinny(boxOfInput)
    /\ verticesOfInput = 5
    /\ solidityOfInput.num * 5 = 4 * solidityOfInput.den
    /\ output = [type |-> "star", confidence |-> 8200]

\* C4: the circularity test comes first and is terminal: a contour whose
\* circularity 4 * pi * area / perimeter^2 exceeds 0.80 is a circle with
\* confidence min(circularity, 0.99), whatever its solidity, vertex count and
\* bounding box; a contour whose circularity is at most 0.80 is never a circle.
C4_CircleFirst ==
    pc = "return" =>
        LET area2 == metricsOfInput.area2
            p == metricsOfInput.perimeter \div 10
            round == p > 0 /\ 62832 * area2 * 5 > 4 * p * p
        IN /\ round => /\ output.type = "circle"
                       /\ output.confidence = Min(tenThousandths(Frac(62832 * area2, p * p)), 9900)
           /\ output.type = "circle" => round

\* C4's case: a contour has been typed circle although it has the corners and
\* the solidity of a polygon of the table, and passes the aspect-ratio check.
C4_Witness ==
    /\ pc = "return"
    /\ output.type = "circle"
    /\ output.confidence = tenThousandths(circularityOfInput)
    /\ ~tooSkinny(boxOfInput)
    /\ decisionTable(verticesOfInput, solidityOfInput).type \in {"triangle", "pentagon"}

\* max(width / height, height / width) > 5.0, a division by 0 taken as
\* infinite (and 0 / 0 as no number).
aspectAboveFive(box) ==
    \/ box.height = 0 /\ box.width > 0
    \/ box.width = 0 /\ box.height > 0
    \/ box.height > 0 /\ box.width > 5 * box.height
    \/ box.width > 0 /\ box.height > 5 * box.width

\* C5: a contour that is not classified as a circle and whose bounding box has
\* max(width / height, height / width) > 5.0 gets no shape from classifyShape,
\* bounding boxes of width 0 or height 0 included.
C5_SkinnyRejected ==
    (pc = "return" /\ output.type # "circle" /\ aspectAboveFive(boxOfInput))
        => output = [type |-> "none", confidence |-> 0]

\* C5's case: a straight stroke, of height 0 and of width at most 5, which the test
\* width / (height || 1) > 5 lets through, has been given no shape.
C5_Witness ==
    /\ pc = "return"
    /\ boxOfInput.height = 0
    /\ boxOfInput.width \in 1..5
    /\ ~tooSkinny(boxOfInput)
    /\ output = [type |-> "none", confidence |-> 0]

-----------------------------------------------------------------------------
(* STEP 4: analyzeContours *)

\* A noise filter with half the threshold: area < 25.
isNoise_HalfThreshold(metrics) == metrics.area2 < 50

\* if (metrics.area < 50) continue
isNoise(metrics) == metrics.area2 < 100

\* "1. Get the metrics": contourMetrics, the pairs { contour, metrics } of the
\* contours that are not noise, in the order findContours found them.
allContourMetrics(found) ==
    [i \in 1..Len(found) |->
        [contour |-> found[i], metrics |-> calculateMetrics(found[i]), place |-> i]]
keepsMetrics(cm) == ~isNoise(cm.metrics)
contourMetrics(found) == SelectSeq(allContourMetrics(found), keepsMetrics)

\* dist < 15 for the centers c1 and c2, each the fraction (sumX, sumY) / count:
\* (c1.x - c2.x)^2 + (c1.y - c2.y)^2 < 15^2, multiplied out.
CenterTolerance == 15
centersClose(c1, c2) ==
    LET n == c1.count * c2.count
        dx == c1.sumX * c2.count - c2.sumX * c1.count
        dy == c1.sumY * c2.count - c2.sumY * c1.count
    IN /\ Abs(dx) < CenterTolerance * n
       /\ Abs(dy) < CenterTolerance * n
       /\ dx * dx + dy * dy < CenterTolerance * CenterTolerance * n * n

\* The body of the filter callback for cm1 = cms[k]: some other contour with
\* a center closer than 15 has a strictly larger area.
isInnerContour(cms, k) ==
    \E l \in 1..Len(cms) :
        /\ l # k
        /\ centersClose(cms[k].metrics.center, cms[l].metrics.center)
        /\ cms[l].metrics.area2 > cms[k].metrics.area2

\* "2. Filter out inner contours": outerContoursMetrics.
RECURSIVE outerFrom(_, _)
outerFrom(cms, k) ==
    IF k > Len(cms) THEN << >>
    ELSE (IF isInnerContour(cms, k) THEN << >> ELSE << cms[k] >>) \o outerFrom(cms, k + 1)
outerContoursMetrics(cms) == outerFrom(cms, 1)

\* "3. Classify the remaining shapes": the shapes pushed, each with the place
\* of its contour among those found.
RECURSIVE shapesFrom(_, _)
shapesFrom(outer, k) ==
    IF k > Len(outer) THEN << >>
    ELSE LET shape == classifyShape(outer[k].contour, outer[k].metrics)
         IN (IF shape = NoShape THEN << >>
             ELSE << [type |-> shape.type, confidence |-> shape.confidence,
                      place |-> outer[k].place] >>)
            \o shapesFrom(outer, k + 1)

analyzeContours(found) ==
    shapesFrom(outerContoursMetrics(contourMetrics(found)), 1)


-----------------------------------------------------------------------------
(* analyzeContours on the contours of rectangles *)

\* The lists given to analyzeContours hold at most MaxContours contours, as
\* findContours finds them on one grid: each the outline of a rectangle of one
\* of the sizes below (longer than the 30 points findContours asks for),
\* moved right by one of ShiftsRight and down by one of ShiftsDown; no pixel
\* of one contour touches a pixel of another, and the contours come in the
\* order of the scan, by their first pixel.
MaxContours == 2
RectangleSizes == {<<8, 8>>, <<12, 12>>, <<6, 10>>, <<2, 14>>}
ShiftsRight == {0, 2, 10, 16}
ShiftsDown == {0, 2}

Placements ==
    {[size |-> sz, right |-> r, down |-> d] :
        sz \in RectangleSizes, r \in ShiftsRight, d \in ShiftsDown}

placed(pl) == translated(outline(rectangleCorners(pl.size[1], pl.size[2])), pl.right, pl.down)

\* No pixel of c1 is a neighbour of a pixel of c2.
apart(c1, c2) ==
    \A i \in 1..Len(c1) : \A j \in 1..Len(c2) :
        Max(Abs(c1[i].x - c2[j].x), Abs(c1[i].y - c2[j].y)) > 1

\* The scan of findContours meets the first pixel of c1 before that of c2.
scannedBefore(c1, c2) ==
    c1[1].y < c2[1].y \/ (c1[1].y = c2[1].y /\ c1[1].x < c2[1].x)

ContourLists(most) ==
    {found \in UNION {[1..n -> {placed(pl) : pl \in Placements}] : n \in 1..most} :
        \A i \in 1..Len(found) : \A j \in (i + 1)..Len(found) :
            scannedBefore(found[i], found[j]) /\ apart(found[i], found[j])}

InitAnalyze ==
    /\ pc = "call"
    /\ input \in ContourLists(MaxContours)
    /\ output = << >>
    /\ IdleTrace
    /\ IdleApp

\* detectShapes, line 67: shapes = this.analyzeContours(contours)
CallAnalyze ==
    /\ pc = "call"
    /\ output' = analyzeContours(input)
    /\ pc' = "return"
    /\ UNCHANGED <<appVars, traceVars, input>>

NextAnalyze == CallAnalyze

SpecAnalyze == InitAnalyze /\ [][NextAnalyze]_vars

\* The places, among the contours found, of the contours the filter keeps.
keptPlaces(found) ==
    LET outer == outerContoursMetrics(contourMetrics(found))
    IN {outer[k].place : k \in 1..Len(outer)}

\* C2: of two distinct contours that both pass the noise filter and whose
\* centers are less than 15 apart, at most one is in the output of the filter
\* of inner contours, and one that is kept has the larger area of the two or
\* the same area; this also when the two areas are equal.
C2_OneSurvivor ==
    pc = "return" =>
        LET all == allContourMetrics(input)
            kept == keptPlaces(input)
        IN \A i \in 1..Len(input) : \A j \in 1..Len(input) :
              (/\ i # j
               /\ all[i].metrics.area2 >= 100
               /\ all[j].metrics.area2 >= 100
               /\ centersClose(all[i].metrics.center, all[j].metrics.center))
              => /\ ~(i \in kept /\ j \in kept)
                 /\ i \in kept => all[i].metrics.area2 >= all[j].metrics.area2

-----------------------------------------------------------------------------
(* The dead end of a walk *)

\* The in-grid 8 neighbours of p.
neighboursOf(p) ==
    {q \in {Pt(p.x + ddx, p.y + ddy) : ddx \in -1..1, ddy \in -1..1} :
        q # p /\ q.x >= 0 /\ q.x < width /\ q.y >= 0 /\ q.y < height}

\* The walk is inside its loop at a point with a neighbour whose cell holds
\* one of `values`, or with the start pixel as a neighbour.
walkSees(values) ==
    \E q \in neighboursOf(currentPoint) : q = startPoint \/ grid[q.y][q.x] \in values

\* The walk is about to run one more iteration of its loop.
walking == pc = "trace" /\ loopTest(traceCount)

\* This step returns the contour accumulated so far, with no point appended.
returnsPartial ==
    /\ pc' = "scan"
    /\ contour' = contour
    /\ Last(traced').points = contour

-----------------------------------------------------------------------------
(* The contours of traceContour as paths *)

\* p and q are 8-connected neighbours: at most 1 apart in x and in y, not equal.
adjacent(p, q) == p # q /\ Abs(p.x - q.x) <= 1 /\ Abs(p.y - q.y) <= 1

\* C12: every contour returned by traceContour (and the one being walked) is
\* a path in the source grid: each of its points lies inside the grid and is
\* an edge pixel of the edge grid, and every two consecutive points are
\* 8-connected neighbours.
C12_ContourIsPath ==
    \A k \in 1..Len(allTraced) :
        LET points == allTraced[k].points
        IN /\ \A j \in 1..Len(points) :
                 /\ points[j].x \in 0..(width - 1)
                 /\ points[j].y \in 0..(height - 1)
                 /\ edgeGrid[points[j].y][points[j].x] = 255
           /\ \A j \in 1..(Len(points) - 1) : adjacent(points[j], points[j + 1])

\* C12's case: a contour of four points or more has been returned, one that
\* turns back over its own pixels.
C12_Witness ==
    /\ pc = "done"
    /\ \E k \in 1..Len(traced) :
          /\ Len(traced[k].points) >= 4
          /\ \E j \in 1..Len(traced[k].points) : ~traced[k].fresh[j]

-----------------------------------------------------------------------------
(* What findContours returns *)

\* The number of cell p in the row-major scan.
scanOrder(p) == p.y * width + p.x

\* The traced contours longer than the minimum, in the order they were traced.
RECURSIVE longOnes(_, _)
longOnes(all, k) ==
    IF k > Len(all) THEN << >>
    ELSE (IF Len(all[k].points) > MinContourLength THEN << all[k].points >> ELSE << >>)
         \o longOnes(all, k + 1)

\* C13: findContours starts one trace at each cell that still holds 255 when
\* the row-major scan reaches it (every edge pixel is the start of a trace or
\* was taken, unvisited, by a trace started before the scan reached it), and
\* returns exactly the traced contours of more than the minimum number of
\* points (30 in the source), in the row-major order of their start pixels.
C13_ScanReturnsLongContours ==
    /\ contours = longOnes(traced, 1)
    /\ \A k \in 1..Len(contours) : Len(contours[k]) > MinContourLength
    /\ \A k \in 1..(Len(allTraced) - 1) :
          scanOrder(allTraced[k].points[1]) < scanOrder(allTraced[k + 1].points[1])
    /\ \A k \in 1..Len(allTraced) :
          edgeGrid[allTraced[k].points[1].y][allTraced[k].points[1].x] = 255
    /\ pc = "done" =>
          \A cy \in 0..(height - 1) : \A cx \in 0..(width - 1) :
              edgeGrid[cy][cx] = 255 =>
                  \E pl \in places :
                      /\ pointAt(pl) = Pt(cx, cy)
                      /\ freshAt(pl)
                      /\ scanOrder(pointAt(<<pl[1], 1>>)) <= scanOrder(Pt(cx, cy))

\* C13's case: the scan is over, it has traced a contour long enough to be
\* returned and, after it, one that is too short, and has returned the first.
C13_Witness ==
    /\ pc = "done"
    /\ Len(traced) >= 2
    /\ Len(traced[1].points) > MinContourLength
    /\ Len(Last(traced).points) <= MinContourLength
    /\ contours = << traced[1].points >>

-----------------------------------------------------------------------------
(* What analyzeContours passes on to classifyShape *)

\* The places in `seq`, a list of records with a place, go strictly upwards.
placesAscend(seq) ==
    \A k \in 1..(Len(seq) - 1) : seq[k].place < seq[k + 1].place

\* C14: the contours analyzeContours passes on to classifyShape are a
\* subsequence of its input list (each is the input contour at its place, and
\* the places go strictly upwards, so none is repeated or moved), none has an
\* area under 50, and every shape returned comes from one of them, in the same
\* order, so its area (the area of its contour's metrics) is at least 50.
C14_KeptSubsequence ==
    pc = "return" =>
        LET outer == outerContoursMetrics(contourMetrics(input))
        IN /\ placesAscend(outer)
           /\ \A k \in 1..Len(outer) :
                 /\ outer[k].place \in 1..Len(input)
                 /\ outer[k].contour = input[outer[k].place]
                 /\ outer[k].metrics = calculateMetrics(input[outer[k].place])
                 /\ outer[k].metrics.area2 >= 2 * 50
           /\ placesAscend(output)
           /\ \A k \in 1..Len(output) :
                 /\ \E l \in 1..Len(outer) : outer[l].place = output[k].place
                 /\ calculateMetrics(input[output[k].place]).area2 >= 2 * 50

\* C14's case: of two contours found, the first has an area under 50 and is
\* dropped, the second is passed on and comes back as the only shape.
C14_Witness ==
    /\ pc = "return"
    /\ Len(input) = 2
    /\ calculateMetrics(input[1]).area2 < 2 * 50
    /\ Len(output) = 1
    /\ output[1].place = 2

-----------------------------------------------------------------------------
(* The vertex count correction of classifyShape *)

\* The lists of vertices the correction is applied to: what simplifyContour
\* returns in classifyShape for the outlines of the catalogue, which end next
\* to their first point, and lists of 2 to MaxVertices points of a coarse
\* lattice, as simplifyContour returns them for a walk that the cap of
\* traceContour cut short anywhere: the first and the last point of the
\* contour and, between them, the points it keeps.
MaxVertices == 3
VertexCoords == {0, 6, 7, 8, 10}

VertexLists(most, maxSide) ==
    UNION {[1..n -> {Pt(vx, vy) : vx \in VertexCoords, vy \in VertexCoords}] : n \in 2..most}
    \cup {simplifyContour(outline(corners), epsilonOf(calculateMetrics(outline(corners)))) :
             corners \in ShapeCorners(maxSide)}

InitVertices ==
    /\ pc = "call"
    /\ input \in VertexLists(MaxVertices, MaxSide)
    /\ output = 0
    /\ IdleTrace
    /\ IdleApp

\* classifyShape, lines 336-345: numVertices after the correction.
CorrectVertexCount ==
    /\ pc = "call"
    /\ output' = numVerticesOf(input)
    /\ pc' = "return"
    /\ UNCHANGED <<appVars, traceVars, input>>

NextVertices == CorrectVertexCount

SpecVertices == InitVertices /\ [][NextVertices]_vars

\* The distance between the first and the last vertex of the list, in
\* thousandths, rounded down.
endsApartMilli(vertices) ==
    sqrtMilli(sq(vertices[1].x - Last(vertices).x) + sq(vertices[1].y - Last(vertices).y))

\* C15: the corrected vertex count is the length of the simplified list minus
\* 1 exactly when the list has more than one vertex and its first and last
\* vertices are less than 10 apart, it is the length of the list otherwise,
\* and it is never less than the length minus 1.
C15_VertexCorrection ==
    pc = "return" =>
        LET closes == Len(input) > 1 /\ endsApartMilli(input) < 10 * 1000
        IN /\ output = Len(input) - 1 <=> closes
           /\ output = Len(input) <=> ~closes
           /\ output \in {Len(input) - 1, Len(input)}

\* C15's case: the first and the last of three vertices are exactly 10
\* apart, and the count has been left at 3.
C15_Witness ==
    /\ pc = "return"
    /\ Len(input) = 3
    /\ sq(input[1].x - input[3].x) + sq(input[1].y - input[3].y) = 100
    /\ input[1].x # input[3].x
    /\ input[1].y # input[3].y
    /\ output = 3

-----------------------------------------------------------------------------
(* ShapeDetectionApp: several pending detections on one ShapeDetector *)

\* At most NumFlows calls of processImage / loadTestImage are pending at once,
\* on images of 1..MaxImageSide pixels a side.
NumFlows == 2
MaxImageSide == 2

Flows == 1..NumFlows
Images == {[width |-> w, height |-> h] : w \in 1..MaxImageSide, h \in 1..MaxImageSide}

NoImage == [width |-> 0, height |-> 0]
NoSize == [rows |-> 0, cols |-> 0]
NoResult == [imageWidth |-> 0, imageHeight |-> 0]

\* A call that has not started: `at` is where the call stands, imageData what
\* loadImage resolved with, grayGrid and edgeGrid the sizes of the grids of
\* its detectShapes, scanned the rows and columns its findContours went over,
\* result the DetectionResult it got.
IdleFlow ==
    [at |-> "idle", imageData |-> NoImage, grayGrid |-> NoSize, edgeGrid |-> NoSize,
     scanned |-> NoSize, result |-> NoResult]

\* A detectShapes that, once it has written width and height, awaits an event
\* from outside.
waitsFor_EventInsideDetectShapes(where) ==
    IF where \in {"idle", "awaitFetch", "awaitBlob", "awaitLoad", "gray"} THEN "event"
    ELSE IF where \in {"loaded", "returned"} THEN "microtask"
    ELSE "nothing"

\* What a call waits for where it stands.  An event from outside: the user
\* (no call yet), the network at `await fetch(dataUrl)` and `await
\* response.blob()`, the image decoder at `await this.detector.loadImage(file)`.
\* A microtask: the continuation of an await whose promise is resolved, after
\* the image's onload and after `await this.detector.detectShapes(imageData)`.
\* Nothing anywhere else: detectShapes contains no await, its code stays on
\* the stack from its first line to its return.
waitsFor(where) ==
    IF where \in {"idle", "awaitFetch", "awaitBlob", "awaitLoad"} THEN "event"
    ELSE IF where \in {"loaded", "returned"} THEN "microtask"
    ELSE "nothing"

\* No code of any call is on the stack.
stackEmpty == \A f \in Flows : waitsFor(flows[f].at) # "nothing"

\* A continuation is queued as a microtask.
microtaskPending == \E f \in Flows : waitsFor(flows[f].at) = "microtask"

\* The event loop starts a task (an event handler) only with an empty stack
\* and an empty microtask queue.
taskMayStart == stackEmpty /\ ~microtaskPending

\* The code of call f goes on: it is on the stack, or its continuation is a
\* queued microtask and the stack is empty, or its event arrives and the
\* event loop may start a task.
mayRun(f) ==
    CASE waitsFor(flows[f].at) = "event" -> taskMayStart
      [] waitsFor(flows[f].at) = "microtask" -> stackEmpty
      [] OTHER -> TRUE

walkVars == <<edgeGrid, grid, scanX, scanY, startPoint, currentPoint, searchStartIndex,
              traceCount, contour, fresh, contours, traced>>

\* The grid `this.height` rows by `this.width` columns, as the loops of
\* createGrayscaleGrid, applySobelEdgeDetection and findContours go over it.
sizeNow == [rows |-> height, cols |-> width]

InitApp ==
    /\ pc = "app"
    /\ width = 0
    /\ height = 0
    /\ edgeGrid = << >>
    /\ IdleWalk
    /\ input = << >>
    /\ output = << >>
    /\ flows = [f \in Flows |-> IdleFlow]
    /\ canvas = NoCanvas

\* The change handler of the file input: processImage runs up to
\* `await this.detector.loadImage(file)`.
UploadFile(f) ==
    /\ mayRun(f)
    /\ flows[f].at = "idle"
    /\ flows' = [flows EXCEPT ![f] = [IdleFlow EXCEPT !.at = "awaitLoad"]]
    /\ UNCHANGED <<pc, width, height, walkVars, callVars, canvas>>

\* A click on a test image: loadTestImage runs up to `await fetch(dataUrl)`.
ClickTestImage(f) ==
    /\ mayRun(f)
    /\ flows[f].at = "idle"
    /\ flows' = [flows EXCEPT ![f] = [IdleFlow EXCEPT !.at = "awaitFetch"]]
    /\ UNCHANGED <<pc, width, height, walkVars, callVars, canvas>>

\* The response arrives: loadTestImage goes on to `await response.blob()`.
FetchResponds(f) ==
    /\ mayRun(f)
    /\ flows[f].at = "awaitFetch"
    /\ flows' = [flows EXCEPT ![f].at = "awaitBlob"]
    /\ UNCHANGED <<pc, width, height, walkVars, callVars, canvas>>

\* The blob is read: loadTestImage makes the File and goes on to
\* `await this.detector.loadImage(file)`.
BlobRead(f) ==
    /\ mayRun(f)
    /\ flows[f].at = "awaitBlob"
    /\ flows' = [flows EXCEPT ![f].at = "awaitLoad"]
    /\ UNCHANGED <<pc, width, height, walkVars, callVars, canvas>>

\* loadImage, img.onload: the canvas takes the size of the image, the image
\* is drawn and read back, and the promise is resolved with it.
ImageLoads(f) ==
    /\ mayRun(f)
    /\ flows[f].at = "awaitLoad"
    /\ \E img \in Images :
          /\ canvas' = img
          /\ flows' = [flows EXCEPT ![f].at = "loaded", ![f].imageData = img]
    /\ UNCHANGED <<pc, width, height, walkVars, callVars>>

\* loadImage, img.onerror = reject: the catch block of the caller reports the
\* error and the call is over.
ImageFails(f) ==
    /\ mayRun(f)
    /\ flows[f].at = "awaitLoad"
    /\ flows' = [flows EXCEPT ![f] = IdleFlow]
    /\ UNCHANGED <<pc, width, height, walkVars, callVars, canvas>>

\* detectShapes, lines 52-54: the call of detectShapes writes width and height.
PassBegins(f) ==
    /\ mayRun(f)
    /\ flows[f].at = "loaded"
    /\ width' = flows[f].imageData.width
    /\ height' = flows[f].imageData.height
    /\ flows' = [flows EXCEPT ![f].at = "gray"]
    /\ UNCHANGED <<pc, walkVars, callVars, canvas>>

\* detectShapes, line 58: createGrayscaleGrid makes this.height rows of
\* this.width values.
PassMakesGrayGrid(f) ==
    /\ mayRun(f)
    /\ flows[f].at = "gray"
    /\ flows' = [flows EXCEPT ![f].at = "sobel", ![f].grayGrid = sizeNow]
    /\ UNCHANGED <<pc, width, height, walkVars, callVars, canvas>>

\* detectShapes, line 61: applySobelEdgeDetection makes this.height rows of
\* this.width cells.
PassMakesEdgeGrid(f) ==
    /\ mayRun(f)
    /\ flows[f].at = "sobel"
    /\ flows' = [flows EXCEPT ![f].at = "contours", ![f].edgeGrid = sizeNow]
    /\ UNCHANGED <<pc, width, height, walkVars, callVars, canvas>>

\* detectShapes, line 64: findContours scans this.height rows of this.width
\* cells of a copy of the edge grid.
PassFindsContours(f) ==
    /\ mayRun(f)
    /\ flows[f].at = "contours"
    /\ flows' = [flows EXCEPT ![f].at = "analyze", ![f].scanned = sizeNow]
    /\ UNCHANGED <<pc, width, height, walkVars, callVars, canvas>>

\* detectShapes, line 67: analyzeContours.
PassAnalyzes(f) ==
    /\ mayRun(f)
    /\ flows[f].at = "analyze"
    /\ flows' = [flows EXCEPT ![f].at = "draw"]
    /\ UNCHANGED <<pc, width, height, walkVars, callVars, canvas>>

\* detectShapes, line 70: drawDetectionsToCanvas puts the image and the
\* shapes on the canvas, whose size stays.
PassDraws(f) ==
    /\ mayRun(f)
    /\ flows[f].at = "draw"
    /\ flows' = [flows EXCEPT ![f].at = "return"]
    /\ UNCHANGED <<pc, width, height, walkVars, callVars, canvas>>

\* detectShapes, lines 73-78: the result takes imageWidth and imageHeight
\* from this.width and this.height; the caller awaits it.
PassReturns(f) ==
    /\ mayRun(f)
    /\ flows[f].at = "return"
    /\ flows' = [flows EXCEPT ![f].at = "returned",
                              ![f].result = [imageWidth |-> width, imageHeight |-> height]]
    /\ UNCHANGED <<pc, width, height, walkVars, callVars, canvas>>

\* The caller goes on after `await this.detector.detectShapes(imageData)`:
\* displayResults, and the call is over.
DisplayResults(f) ==
    /\ mayRun(f)
    /\ flows[f].at = "returned"
    /\ flows' = [flows EXCEPT ![f] = IdleFlow]
    /\ UNCHANGED <<pc, width, height, walkVars, callVars, canvas>>

NextApp ==
    \E f \in Flows :
        \/ UploadFile(f)
        \/ ClickTestImage(f)
        \/ FetchResponds(f)
        \/ BlobRead(f)
        \/ ImageLoads(f)
        \/ ImageFails(f)
        \/ PassBegins(f)
        \/ PassMakesGrayGrid(f)
        \/ PassMakesEdgeGrid(f)
        \/ PassFindsContours(f)
        \/ PassAnalyzes(f)
        \/ PassDraws(f)
        \/ PassReturns(f)
        \/ DisplayResults(f)

SpecApp == InitApp /\ [][NextApp]_vars

\* Call f is inside a pass: its detectShapes has written width and height and
\* has not returned yet.
inPass(f) == flows[f].at \in {"gray", "sobel", "contours", "analyze", "draw", "return"}

\* Where call f stands, its next step reads or writes width and height.
touchesSize(f) == flows[f].at \in {"loaded", "gray", "sobel", "contours", "return"}

\* The size of image img as a grid.
sizeOf(img) == [rows |-> img.height, cols |-> img.width]

\* C16: detection passes on one ShapeDetector never interleave.  While a call
\* is between the write of width and height and its return, width and height
\* keep its image's values and no other call takes a step that reads or
\* writes them or is itself inside a pass; every grid a pass has made or
\* scanned has the size of its own image, and the imageWidth and imageHeight
\* returned are those of the ImageData given to the call.
C16_PassesDoNotInterleave ==
    /\ [](\A f \in Flows :
            /\ inPass(f) =>
                 /\ width = flows[f].imageData.width
                 /\ height = flows[f].imageData.height
                 /\ \A g \in Flows \ {f} : ~inPass(g)
            /\ flows[f].grayGrid \in {NoSize, sizeOf(flows[f].imageData)}
            /\ flows[f].edgeGrid \in {NoSize, sizeOf(flows[f].imageData)}
            /\ flows[f].scanned \in {NoSize, sizeOf(flows[f].imageData)}
            /\ flows[f].at = "returned" =>
                 /\ flows[f].result.imageWidth = flows[f].imageData.width
                 /\ flows[f].result.imageHeight = flows[f].imageData.height)
    /\ [][\A f \in Flows :
            inPass(f) =>
                /\ width' = width
                /\ height' = height
                /\ \A g \in Flows \ {f} : touchesSize(g) => flows'[g] = flows[g]]_vars

\* C16's case: one call is at the return of a pass on its image, 2 wide and
\* 1 high, the last image put on the canvas, while another call is still
\* waiting for its image to load.
C16_Witness ==
    \E f \in Flows : \E g \in Flows \ {f} :
        /\ flows[f].at = "return"
        /\ flows[f].scanned = sizeOf(flows[f].imageData)
        /\ flows[g].at = "awaitLoad"
        /\ canvas = flows[f].imageData
        /\ flows[f].imageData = [width |-> 2, height |-> 1]

-----------------------------------------------------------------------------
(* What the tracer does to its grid *)

\* The cells of the grid.
gridCells == {Pt(cx, cy) : cx \in 0..(width - 1), cy \in 0..(height - 1)}

\* C17: the only change findContours and traceContour make to the working
\* grid is to turn a cell holding 255 into 128 (a 0 stays 0 and a 128 never
\* changes again); when findContours has returned no cell holds 255; and
\* the edge grid of applySobelEdgeDetection, of which the working grid is a
\* copy, is never changed: each cell of the working grid holds what the edge
\* grid holds there, or 128 where the edge grid holds 255.
C17_OnlyMarksVisited ==
    /\ [][\A c \in gridCells :
            grid'[c.y][c.x] # grid[c.y][c.x] => (grid[c.y][c.x] = 255 /\ grid'[c.y][c.x] = 128)]_vars
    /\ [][edgeGrid' = edgeGrid]_vars
    /\ [](\A c \in gridCells :
            /\ grid[c.y][c.x] \in {0, 128, 255}
            /\ \/ grid[c.y][c.x] = edgeGrid[c.y][c.x]
               \/ (grid[c.y][c.x] = 128 /\ edgeGrid[c.y][c.x] = 255)
            /\ pc = "done" => grid[c.y][c.x] # 255)

\* C17's case: findContours has returned, it has marked three or more cells
\* visited, one of them by a walk that stepped on it, and the edge grid still
\* holds 255 in each of them.
C17_Witness ==
    /\ pc = "done"
    /\ Cardinality({c \in gridCells : grid[c.y][c.x] = 128 /\ edgeGrid[c.y][c.x] = 255}) >= 3
    /\ \E c \in gridCells : grid[c.y][c.x] = 0
    /\ \E k \in 1..Len(traced) : Len(traced[k].points) >= 2

=============================================================================
